---- MODULE Spec2Model ----
(***************************************************************************)
(* Model of archiscribe's line cache: cacheWatcher (the multi-year cache   *)
(* watcher), CacheLines (the single-year filler) and the collaborators     *)
(* they call (IDCache.Random, IsFraktur, FetchLines).                      *)
(***************************************************************************)
EXTENDS Integers, Sequences, FiniteSets, TLC

\* ------------------------------------------------------------------ bounds
\* progress events a fetch sends before it ends
MaxProgress == 1
\* files the external consumer (web layer) removes in one run
MaxRemovals == 1
\* total length of the stream a ProgressReader wraps
MaxLen == 3
\* length of the buffer handed to ProgressReader.Read
MaxBuf == 2
\* calls of ProgressReader.Read in one run
MaxReads == 5

\* ------------------------------------------------------- program constants
\* for len(cacheFiles[year]) < 3
MinStock == 3

\* --------------------------------------------------------------- universe
\* Identifiers of the index.  The name tells how the collaborators treat
\* the identifier: g* are Fraktur volumes whose fetch delivers lines, nf is
\* not Fraktur, ce makes the classifier fail, fe makes FetchLines return an
\* error, pe ends its progress stream with an error, em delivers an empty
\* slice and cl closes the line channel without a value.
Idents == {"g1", "g2", "g3", "nf", "ce", "fe", "pe", "em", "cl"}

\* .json files present before the watcher runs
OldFiles == {"o1", "o2", "o3"}

\* entries of a year directory that are not cache files: a text file, a
\* nested directory, a nested directory whose name ends in .json
OtherEntries == {"notes.txt", "sub", "sub.json"}

FileNames == Idents \cup OldFiles

\* entries of the cache root, in ioutil.ReadDir's (sorted) order
RootEntries == <<"1850", "1860", "identifiers.json">>

DirNames == {"1850", "1860"}

Years == {1850, 1860}

\* a nil slice (zero value of []OCRLine)
NilLines == [nil |-> TRUE, elems |-> <<>>]

\* --------------------------------------------------------------- variables
VARIABLES
  pc,          \* position of the watcher goroutine (cacheWatcher / CacheLines)
  Index,       \* IDCache: year -> identifiers
  disk,        \* directory name -> [files: name -> JSON, other: entries]
  initDisk,    \* disk as it was when cacheWatcher was called
  yearDirs,    \* cacheWatcher: result of ioutil.ReadDir(basePath)
  idx,         \* cacheWatcher: position of the range loop in yearDirs
  year,        \* cacheWatcher / CacheLines: the current year
  cacheFiles,  \* cacheWatcher: year -> sequence of paths
  ident,       \* CacheLines: the sampled identifier
  progChan,    \* progress channel of the current fetch
  lineChan,    \* line channel of the current fetch
  sent,        \* progress events the current fetch has sent
  progBar,     \* CacheLines: current value of the progress bar
  tried,       \* identifiers handed to FetchLines in this CacheLines call
  removals,    \* files removed by the external consumer so far
  readOnly,    \* directories in which ioutil.WriteFile fails
  last,        \* the step taken last
  running,     \* year -> CacheLines calls for the year that have not returned
  fills,       \* year -> CacheLines calls cacheWatcher has made for the year
  reader,      \* a ProgressReader and the reader it wraps
  boot         \* the process: main, InitCache and what they find and set

vars == <<pc, Index, disk, initDisk, yearDirs, idx, year, cacheFiles, ident,
          progChan, lineChan, sent, progBar, tried, removals, readOnly, last,
          running, fills, reader, boot>>

\* ------------------------------------------------------------ pure helpers
\* FileInfo.IsDir() of an entry
IsDir(name) == name \in DirNames \cup {"sub", "sub.json"}

\* path.Ext(name) = ".json"
ExtIsJSON(name) == name \in FileNames \cup {"sub.json", "identifiers.json"}

\* strconv.Atoi, its error dropped: 0 for a name that is not a number
Atoi(name) ==
  CASE name = "1850" -> 1850
    [] name = "1860" -> 1860
    [] OTHER -> 0

\* Itoa that formats every year as the first one
Itoa_FirstYear(y) == "1850"

\* strconv.Itoa
Itoa(y) ==
  CASE y = 1850 -> "1850"
    [] y = 1860 -> "1860"
    [] OTHER -> "0"

\* path.Join(yearPath, name): a path is <<directory, file>>
Join(dir, name) == <<dir, name>>

\* the order ioutil.ReadDir lists a year directory in (by file name)
DirOrder == <<"cl", "ce", "em", "fe", "g1", "g2", "g3", "nf", "notes.txt",
              "o1", "o2", "o3", "pe", "sub", "sub.json">>

\* ioutil.ReadDir(yearPath)
ReadDir(dir) ==
  LET present == DOMAIN disk[dir].files \cup disk[dir].other
  IN  SelectSeq(DirOrder, LAMBDA n : n \in present)

\* make([]string, n): n empty strings (the empty path)
RECURSIVE MakeStrings(_)
MakeStrings(n) == IF n = 0 THEN <<>> ELSE Append(MakeStrings(n - 1), <<>>)

\* lines 164-170: the list cacheWatcher builds for one year directory
RECURSIVE AppendJSON(_, _, _)
AppendJSON(list, dir, content) ==
  IF content = <<>> THEN list
  ELSE LET f == Head(content)
       IN  IF IsDir(f) \/ ~ExtIsJSON(f)
           THEN AppendJSON(list, dir, Tail(content))
           ELSE AppendJSON(Append(list, Join(dir, f)), dir, Tail(content))

ScanYearDir(dir) ==
  LET dirContent == ReadDir(dir)
  IN  AppendJSON(MakeStrings(Len(dirContent)), dir, dirContent)

\* json.Marshal of a []OCRLine: null for a nil slice, an array otherwise
Marshal(lines) ==
  IF lines.nil THEN [null |-> TRUE, elems |-> <<>>]
  ELSE [null |-> FALSE, elems |-> lines.elems]

\* ------------------------------------------------------------ collaborators
\* IDCache.Random(year): the entries it can return
Random(y) == Index[y]

\* IsFraktur(ident) -> (bool, error)
IsFraktur(id) ==
  CASE id = "nf" -> [isFrak |-> FALSE, err |-> FALSE]
    [] id = "ce" -> [isFrak |-> FALSE, err |-> TRUE]
    [] OTHER -> [isFrak |-> TRUE, err |-> FALSE]

\* the lines a fetch of id delivers
LinesOf(id) ==
  CASE id = "g2" -> [nil |-> FALSE, elems |-> <<"l1", "l2">>]
    [] id = "em" -> [nil |-> FALSE, elems |-> <<>>]
    [] id = "cl" -> NilLines
    [] OTHER -> [nil |-> FALSE, elems |-> <<"l1">>]

\* FetchLines(ident) -> (progChan, lineChan, err): how the fetch ends
FetchLines(id) ==
  CASE id = "fe" -> "err"
    [] id = "pe" -> "progErr"
    [] id = "cl" -> "close"
    [] OTHER -> "deliver"

\* the fetch of id ends with an error (FetchLines' error or a progress error)
FetchFails(id) == FetchLines(id) \in {"err", "progErr"}

\* id is classified as Fraktur without an error
ClassifiedFraktur(id) == IsFraktur(id).isFrak /\ ~IsFraktur(id).err

\* ------------------------------------------------------------------- Init
OldJSON == [null |-> FALSE, elems |-> <<"l1">>]

InitDir(old, other) == [files |-> [f \in old |-> OldJSON], other |-> other]

\* contents a year directory starts with
InitDirChoices ==
  { InitDir({}, {}),
    InitDir({}, OtherEntries),
    InitDir({"o1", "o2"}, {}),
    InitDir({"g1"}, {}),
    InitDir({"o1", "o2", "o3"}, {"sub.json"}) }

\* indexes IDCache can hold
IndexChoices ==
  { [y \in Years |-> {"g1", "g2", "g3"}],
    [y \in Years |-> IF y = 1850 THEN {"g1"} ELSE {"g1", "nf", "ce", "fe", "pe"}],
    [y \in Years |-> IF y = 1850 THEN {"g2", "pe", "fe"} ELSE {"em", "cl"}],
    [y \in Years |-> IF y = 1850 THEN {"g1", "g2", "g3"} ELSE {"nf", "ce", "fe", "pe"}],
    [y \in Years |-> IF y = 1850 THEN {"fe", "pe"} ELSE {"g1", "g2"}] }

\* the directories that can be unwritable
ReadOnlyChoices == {{}, {"1860"}}

\* a ProgressReader nobody reads from
ReaderIdle ==
  [len |-> 0, pos |-> 0, BytesRead |-> 0, sum |-> 0, zero |-> FALSE,
   eof |-> TRUE, calls |-> 0]

\* a process that is not being started
BootIdle ==
  [entry |-> "none", pc |-> "idle", argRepoPath |-> "", argDebug |-> FALSE,
   repoPath |-> "", isDebug |-> FALSE, envCache |-> FALSE, cacheDir |-> "",
   rootKind |-> "dir", root0 |-> "dir", snapshot |-> FALSE, snap0 |-> FALSE,
   catalogOK |-> TRUE, mkdirOK |-> TRUE, LineCache |-> FALSE, IDCache |-> "nil",
   queries |-> 0, mkdirs |-> 0, port |-> 0, panic |-> "none"]

Init ==
  /\ pc = "start"
  /\ running = [y \in Years |-> 0]
  /\ fills = [y \in Years |-> 0]
  /\ reader = ReaderIdle
  /\ boot = BootIdle
  /\ Index \in IndexChoices
  /\ disk \in [DirNames -> InitDirChoices]
  /\ initDisk = disk
  /\ yearDirs = <<>>
  /\ idx = 1
  /\ year = 0
  /\ cacheFiles = [y \in Years |-> <<>>]
  /\ ident = ""
  /\ progChan = "none"
  /\ lineChan = "none"
  /\ sent = 0
  /\ progBar = 0
  /\ tried = {}
  /\ removals = 0
  /\ readOnly \in ReadOnlyChoices
  /\ last = "init"

\* ------------------------------------------------------------ cacheWatcher
\* number of .json cache files a year directory holds
Stock(dir) == Cardinality(DOMAIN disk[dir].files)

InCacheLines == pc \in {"sample", "classify", "fetch", "select"}

\* lines 153-156: ioutil.ReadDir(basePath); on error return nil, err
WatcherReadDir ==
  /\ pc = "start"
  /\ \/ /\ pc' = "error"
        /\ yearDirs' = yearDirs
        /\ last' = "readDirErr"
     \/ /\ pc' = "range"
        /\ yearDirs' = RootEntries
        /\ last' = "readDir"
  /\ UNCHANGED <<Index, disk, initDisk, idx, year, cacheFiles, ident,
                 progChan, lineChan, sent, progBar, tried, removals, readOnly, reader, boot, running, fills>>

\* lines 157, 181: the range loop is exhausted, return cacheChannels, nil
WatcherReturn ==
  /\ pc = "range"
  /\ idx > Len(yearDirs)
  /\ pc' = "returned"
  /\ last' = "return"
  /\ UNCHANGED <<Index, disk, initDisk, yearDirs, idx, year, cacheFiles, ident,
                 progChan, lineChan, sent, progBar, tried, removals, readOnly, reader, boot, running, fills>>

\* lines 158-160: an entry that is not a directory is skipped
WatcherSkip ==
  /\ pc = "range"
  /\ idx <= Len(yearDirs)
  /\ ~IsDir(yearDirs[idx])
  /\ idx' = idx + 1
  /\ last' = "skip"
  /\ UNCHANGED <<pc, Index, disk, initDisk, yearDirs, year, cacheFiles, ident,
                 progChan, lineChan, sent, progBar, tried, removals, readOnly, reader, boot, running, fills>>

\* lines 161-170: list the year directory and collect its .json files
WatcherScan ==
  /\ pc = "range"
  /\ idx <= Len(yearDirs)
  /\ IsDir(yearDirs[idx])
  /\ year' = Atoi(yearDirs[idx])
  /\ cacheFiles' = [cacheFiles EXCEPT ![Atoi(yearDirs[idx])] = ScanYearDir(yearDirs[idx])]
  /\ pc' = "fill"
  /\ last' = "scan"
  /\ UNCHANGED <<Index, disk, initDisk, yearDirs, idx, ident,
                 progChan, lineChan, sent, progBar, tried, removals, readOnly, reader, boot, running, fills>>

\* WatcherCallFill that does not wait for CacheLines (go CacheLines(...)): the
\* loop of line 172 goes on while the call is in flight
WatcherCallFill_Spawn ==
  /\ pc = "fill"
  /\ Len(cacheFiles[year]) < MinStock
  /\ running' = [running EXCEPT ![year] = @ + 1]
  /\ fills' = [fills EXCEPT ![year] = @ + 1]
  /\ last' = "call"
  /\ UNCHANGED <<pc, Index, disk, initDisk, yearDirs, idx, year, cacheFiles, ident,
                 progChan, lineChan, sent, progBar, tried, removals, readOnly,
                 reader, boot>>

\* WatcherCallFill with <= for < in line 172
WatcherCallFill_OffByOne ==
  /\ pc = "fill"
  /\ Len(cacheFiles[year]) <= MinStock
  /\ pc' = "sample"
  /\ tried' = {}
  /\ running' = [running EXCEPT ![year] = @ + 1]
  /\ fills' = [fills EXCEPT ![year] = @ + 1]
  /\ last' = "call"
  /\ UNCHANGED <<Index, disk, initDisk, yearDirs, idx, year, cacheFiles, ident,
                 progChan, lineChan, sent, progBar, removals, readOnly,
                 reader, boot>>

\* line 172, condition true: call CacheLines(basePath, year, true)
WatcherCallFill ==
  /\ pc = "fill"
  /\ Len(cacheFiles[year]) < MinStock
  /\ pc' = "sample"
  /\ tried' = {}
  /\ running' = [running EXCEPT ![year] = @ + 1]
  /\ fills' = [fills EXCEPT ![year] = @ + 1]
  /\ last' = "call"
  /\ UNCHANGED <<Index, disk, initDisk, yearDirs, idx, year, cacheFiles, ident,
                 progChan, lineChan, sent, progBar, removals, readOnly, reader, boot>>

\* line 172, condition false: on to the next entry of yearDirs
WatcherNextYear ==
  /\ pc = "fill"
  /\ ~(Len(cacheFiles[year]) < MinStock)
  /\ idx' = idx + 1
  /\ pc' = "range"
  /\ last' = "stocked"
  /\ UNCHANGED <<Index, disk, initDisk, yearDirs, year, cacheFiles, ident,
                 progChan, lineChan, sent, progBar, tried, removals, readOnly, reader, boot, running, fills>>

\* -------------------------------------------------------------- CacheLines
\* lines 107-108: entry := IDCache.Random(year); ident := entry.Identifier
Sample(id) ==
  /\ pc = "sample"
  /\ id \in Random(year)
  /\ ident' = id
  /\ pc' = "classify"
  /\ last' = "sampled"
  /\ UNCHANGED <<Index, disk, initDisk, yearDirs, idx, year, cacheFiles,
                 progChan, lineChan, sent, progBar, tried, removals, readOnly, reader, boot, running, fills>>

\* Classify without the test of line 110: every identifier is fetched
Classify_NoTest ==
  /\ pc = "classify"
  /\ pc' = "fetch"
  /\ last' = "classified"
  /\ UNCHANGED <<Index, disk, initDisk, yearDirs, idx, year, cacheFiles, ident,
                 progChan, lineChan, sent, progBar, tried, removals, readOnly, reader, boot, running, fills>>

\* lines 109-112: isFrak, _ := IsFraktur(ident); if !isFrak { continue }
Classify ==
  /\ pc = "classify"
  /\ IF ~IsFraktur(ident).isFrak
     THEN pc' = "sample" /\ last' = "rejected"
     ELSE pc' = "fetch" /\ last' = "classified"
  /\ UNCHANGED <<Index, disk, initDisk, yearDirs, idx, year, cacheFiles, ident,
                 progChan, lineChan, sent, progBar, tried, removals, readOnly, reader, boot, running, fills>>

\* lines 113-124: FetchLines(ident); on error log and continue
Fetch ==
  /\ pc = "fetch"
  /\ tried' = tried \cup {ident}
  /\ IF FetchLines(ident) = "err"
     THEN /\ pc' = "sample"
          /\ last' = "fetchErr"
          /\ UNCHANGED <<progChan, lineChan, sent, progBar>>
     ELSE /\ pc' = "select"
          /\ progChan' = "open"
          /\ lineChan' = "open"
          /\ sent' = 0
          /\ progBar' = 0
          /\ last' = "fetching"
  /\ UNCHANGED <<Index, disk, initDisk, yearDirs, idx, year, cacheFiles, ident,
                 removals, readOnly, reader, boot, running, fills>>

\* RecvProg with a plain continue at line 130: the select loop goes on
RecvProg_InnerContinue ==
  /\ pc = "select"
  /\ progChan \in {"event", "error", "closed"}
  /\ CASE progChan = "error" ->
            /\ progChan' = "open"
            /\ last' = "progErr"
            /\ UNCHANGED <<pc, lineChan, progBar>>
       [] progChan = "event" ->
            /\ progBar' = (sent * 100) \div MaxProgress
            /\ progChan' = "open"
            /\ last' = "progress"
            /\ UNCHANGED <<pc, lineChan>>
       [] progChan = "closed" ->
            /\ progBar' = 0
            /\ last' = "progClosed"
            /\ UNCHANGED <<pc, progChan, lineChan>>
  /\ UNCHANGED <<Index, disk, initDisk, yearDirs, idx, year, cacheFiles, ident,
                 sent, tried, removals, readOnly, reader, boot, running, fills>>

\* RecvProg that takes the zero value of a closed progress channel for an
\* error and goes back to the sampling
RecvProg_ClosedIsError ==
  /\ pc = "select"
  /\ progChan \in {"event", "error", "closed"}
  /\ CASE progChan \in {"error", "closed"} ->
            /\ pc' = "sample"
            /\ progChan' = "none"
            /\ lineChan' = "none"
            /\ last' = "progErr"
            /\ UNCHANGED progBar
       [] progChan = "event" ->
            /\ progBar' = (sent * 100) \div MaxProgress
            /\ progChan' = "open"
            /\ last' = "progress"
            /\ UNCHANGED <<pc, lineChan>>
  /\ UNCHANGED <<Index, disk, initDisk, yearDirs, idx, year, cacheFiles, ident,
                 sent, tried, removals, readOnly, reader, boot, running, fills>>

\* lines 127-133: case prog := <-progChan
RecvProg ==
  /\ pc = "select"
  /\ progChan \in {"event", "error", "closed"}
  /\ CASE progChan = "error" ->
            /\ pc' = "sample"
            /\ progChan' = "none"
            /\ lineChan' = "none"
            /\ last' = "progErr"
            /\ UNCHANGED progBar
       [] progChan = "event" ->
            /\ progBar' = (sent * 100) \div MaxProgress
            /\ progChan' = "open"
            /\ last' = "progress"
            /\ UNCHANGED <<pc, lineChan>>
       [] progChan = "closed" ->
            /\ progBar' = 0
            /\ last' = "progClosed"
            /\ UNCHANGED <<pc, progChan, lineChan>>
  /\ UNCHANGED <<Index, disk, initDisk, yearDirs, idx, year, cacheFiles, ident,
                 sent, tried, removals, readOnly, reader, boot, running, fills>>

\* ioutil.WriteFile(filePath, lineJSON, 0644), ok = it did not fail
WriteFile(filePath, lineJSON, ok) ==
  IF ok
  THEN [disk EXCEPT ![filePath[1]].files =
          [f \in DOMAIN @ \cup {filePath[2]} |->
              IF f = filePath[2] THEN lineJSON ELSE @[f]]]
  ELSE disk

\* RecvLines without the return of line 141: the file is written and the
\* select loop goes on
RecvLines_NoReturn ==
  /\ pc = "select"
  /\ lineChan \in {"value", "closed"}
  /\ LET lines == IF lineChan = "value" THEN LinesOf(ident) ELSE NilLines
         filePath == Join(Itoa(year), ident)
         lineJSON == Marshal(lines)
         ok == filePath[1] \notin readOnly
     IN  /\ disk' = WriteFile(filePath, lineJSON, ok)
         /\ last' = IF ok THEN "wrote" ELSE "writeErr"
  /\ lineChan' = IF lineChan = "value" THEN "open" ELSE lineChan
  /\ UNCHANGED <<pc, Index, initDisk, yearDirs, idx, year, cacheFiles, ident,
                 progChan, sent, progBar, tried, removals, readOnly, reader, boot, running, fills>>

\* lines 134-141 and the append of line 173: case lines := <-lineChan
RecvLines ==
  /\ pc = "select"
  /\ lineChan \in {"value", "closed"}
  /\ LET lines == IF lineChan = "value" THEN LinesOf(ident) ELSE NilLines
         filePath == Join(Itoa(year), ident)
         lineJSON == Marshal(lines)
         ok == filePath[1] \notin readOnly
     IN  /\ disk' = WriteFile(filePath, lineJSON, ok)
         /\ cacheFiles' = [cacheFiles EXCEPT ![year] = Append(@, filePath)]
         /\ last' = IF ok THEN "wrote" ELSE "writeErr"
  /\ pc' = "fill"
  /\ progChan' = "none"
  /\ lineChan' = "none"
  /\ ident' = ""
  /\ sent' = 0
  /\ progBar' = 0
  /\ tried' = {}
  /\ running' = [running EXCEPT ![year] = @ - 1]
  /\ UNCHANGED <<Index, initDisk, yearDirs, idx, year, removals, readOnly, reader, boot, fills>>

\* ------------------------------------------------- the fetch's producer side
\* the fetch sends a progress event
ProducerProgress ==
  /\ pc = "select"
  /\ progChan = "open"
  /\ sent < MaxProgress
  /\ sent' = sent + 1
  /\ progChan' = "event"
  /\ last' = "producer"
  /\ UNCHANGED <<pc, Index, disk, initDisk, yearDirs, idx, year, cacheFiles,
                 ident, lineChan, progBar, tried, removals, readOnly, reader, boot, running, fills>>

\* the fetch fails: a terminal error on the progress stream, no result
ProducerError ==
  /\ pc = "select"
  /\ progChan = "open"
  /\ FetchLines(ident) = "progErr"
  /\ progChan' = "error"
  /\ last' = "producer"
  /\ UNCHANGED <<pc, Index, disk, initDisk, yearDirs, idx, year, cacheFiles,
                 ident, lineChan, sent, progBar, tried, removals, readOnly, reader, boot, running, fills>>

\* the fetch ends: the progress stream is closed and the result delivered
ProducerFinish ==
  /\ pc = "select"
  /\ progChan = "open"
  /\ FetchLines(ident) \in {"deliver", "close"}
  /\ progChan' = "closed"
  /\ lineChan' = IF FetchLines(ident) = "deliver" THEN "value" ELSE "closed"
  /\ last' = "producer"
  /\ UNCHANGED <<pc, Index, disk, initDisk, yearDirs, idx, year, cacheFiles,
                 ident, sent, progBar, tried, removals, readOnly, reader, boot, running, fills>>

\* ------------------------------------------------------ external consumer
\* the web layer removes a consumed cache file
ConsumerRemove(dir, f) ==
  /\ removals < MaxRemovals
  /\ f \in DOMAIN disk[dir].files
  /\ disk' = [disk EXCEPT ![dir].files = [g \in DOMAIN @ \ {f} |-> @[g]]]
  /\ removals' = removals + 1
  /\ last' = "removed"
  /\ UNCHANGED <<pc, Index, initDisk, yearDirs, idx, year, cacheFiles, ident,
                 progChan, lineChan, sent, progBar, tried, readOnly, reader, boot, running, fills>>

\* ------------------------------------------------------------ specification
WatcherStep ==
  \/ WatcherReadDir
  \/ WatcherReturn
  \/ WatcherSkip
  \/ WatcherScan
  \/ WatcherCallFill
  \/ WatcherNextYear

Next ==
  \/ WatcherReadDir
  \/ WatcherReturn
  \/ WatcherSkip
  \/ WatcherScan
  \/ WatcherCallFill
  \/ WatcherNextYear
  \/ \E id \in Idents : Sample(id)
  \/ Classify
  \/ Fetch
  \/ RecvProg
  \/ RecvLines
  \/ ProducerProgress
  \/ ProducerError
  \/ ProducerFinish
  \/ \E dir \in DirNames, f \in FileNames : ConsumerRemove(dir, f)

Spec == Init /\ [][Next]_vars

\* the runs the progress claims are checked on: the indexes that hold an
\* identifier CacheLines has to drop, year directories that all start empty or
\* all start stocked
FairIndexChoices ==
  { ix \in IndexChoices :
      \E y \in Years : \E id \in ix[y] : ~ClassifiedFraktur(id) \/ FetchFails(id) }

FairDiskChoices ==
  { [d \in DirNames |-> InitDir({}, {})],
    [d \in DirNames |-> InitDir({"o1", "o2", "o3"}, {"sub.json"})] }

FairInit ==
  /\ Init
  /\ Index \in FairIndexChoices
  /\ disk \in FairDiskChoices

\* a step of the goroutine that runs cacheWatcher and CacheLines
GoroutineStep ==
  \/ WatcherStep
  \/ \E id \in Idents : Sample(id)
  \/ Classify
  \/ Fetch
  \/ RecvProg
  \/ RecvLines

\* the fetch comes to its end
ProducerEnd == ProducerError \/ ProducerFinish

\* IDCache.Random draws an identifier that is Fraktur and whose fetch delivers
SampleUsable ==
  \E id \in Idents : ClassifiedFraktur(id) /\ ~FetchFails(id) /\ Sample(id)

\* the goroutines keep running, select takes a ready line channel, and the
\* sampling is fair: a usable identifier of the year is drawn again and again
FairSpec ==
  /\ FairInit
  /\ [][Next]_vars
  /\ WF_vars(GoroutineStep)
  /\ WF_vars(RecvLines)
  /\ WF_vars(ProducerEnd)
  /\ SF_vars(SampleUsable)

\* ---------------------------------------------------------- ProgressReader
\* the watcher is not running
WatcherIdle ==
  /\ pc = "idle"
  /\ Index = [y \in Years |-> {}]
  /\ disk = [d \in DirNames |-> InitDir({}, {})]
  /\ initDisk = disk
  /\ yearDirs = <<>>
  /\ idx = 1
  /\ year = 0
  /\ cacheFiles = [y \in Years |-> <<>>]
  /\ ident = ""
  /\ progChan = "none"
  /\ lineChan = "none"
  /\ sent = 0
  /\ progBar = 0
  /\ tried = {}
  /\ removals = 0
  /\ readOnly = {}
  /\ last = "init"
  /\ running = [y \in Years |-> 0]
  /\ fills = [y \in Years |-> 0]

\* lines 87-90: NewProgressReader(proxied), proxied a stream of len bytes
NewProgressReader(len) ==
  [len |-> len, pos |-> 0, BytesRead |-> 0, sum |-> 0, zero |-> FALSE,
   eof |-> FALSE, calls |-> 0]

ReaderInit ==
  /\ WatcherIdle
  /\ boot = BootIdle
  /\ \E len \in 0..MaxLen : reader = NewProgressReader(len)

\* what r.proxiedReader.Read(p) may return for a buffer of b bytes: n bytes
\* (none past the end of the stream) and io.EOF (eof) only at the end
ProxiedRead(b, n, eof) ==
  /\ n \in 0..b
  /\ reader.pos + n <= reader.len
  /\ eof => reader.pos + n = reader.len

\* lines 92-100: ProgressReader.Read(p) with len(p) = b
Read(b, n, eof) ==
  /\ ~reader.eof
  /\ reader.calls < MaxReads
  /\ ProxiedRead(b, n, eof)
  /\ reader' = [reader EXCEPT
       !.BytesRead = IF n > 0 THEN @ + n ELSE @ + b,
       !.pos = @ + n,
       !.sum = @ + n,
       !.zero = @ \/ (n = 0 /\ ~eof),
       !.eof = eof,
       !.calls = @ + 1]
  /\ UNCHANGED <<pc, Index, disk, initDisk, yearDirs, idx, year, cacheFiles,
                 ident, progChan, lineChan, sent, progBar, tried, removals,
                 readOnly, last, running, fills, boot>>

ReaderNext == \E b \in 1..MaxBuf, n \in 0..MaxBuf, eof \in BOOLEAN : Read(b, n, eof)

ReaderSpec == ReaderInit /\ [][ReaderNext]_vars

\* -------------------------------------------------------- main, InitCache
\* web.Serve's port in debug mode (main.go line 19)
DebugPort == 8083
\* web.Serve's port otherwise (main.go line 21)
ServePort == 8080

\* what os.Stat(cacheDir) can find: nothing, a file, a directory, or an error
\* other than "does not exist" (dirStat is then nil)
RootKinds == {"absent", "file", "dir", "statErr"}

\* the process before main or InitCache runs: entry tells which of them is
\* called, arg* is the command line, envCache whether ARCHISCRIBE_CACHE is set
\* and the rest what is found on disk and at the catalog
StartInit ==
  /\ WatcherIdle
  /\ reader = ReaderIdle
  /\ \E entry \in {"main", "InitCache"}, argRepoPath \in {"", "repo"},
        argDebug, envCache, snapshot, catalogOK, mkdirOK \in BOOLEAN,
        rootKind \in RootKinds :
       /\ snapshot => rootKind = "dir"
       /\ boot = [BootIdle EXCEPT
            !.entry = entry, !.pc = entry,
            !.argRepoPath = argRepoPath, !.argDebug = argDebug,
            !.envCache = envCache,
            !.rootKind = rootKind, !.root0 = rootKind,
            !.snapshot = snapshot, !.snap0 = snapshot,
            !.catalogOK = catalogOK, !.mkdirOK = mkdirOK]

\* CheckCacheDir without the test of line 303
CheckCacheDir_NoDirTest(b) ==
  LET c == [b EXCEPT !.cacheDir = IF b.envCache THEN "$ARCHISCRIBE_CACHE"
                                  ELSE "./cache"]
  IN  IF c.rootKind = "absent"
      THEN [c EXCEPT !.mkdirs = @ + 1,
                     !.rootKind = IF c.mkdirOK THEN "dir" ELSE "absent"]
      ELSE c

\* InitCache, lines 295-307: resolve the cache directory and look at it
CheckCacheDir(b) ==
  LET c == [b EXCEPT !.cacheDir = IF b.envCache THEN "$ARCHISCRIBE_CACHE"
                                  ELSE "./cache"]
  IN  CASE c.rootKind = "absent" ->
             [c EXCEPT !.mkdirs = @ + 1,
                       !.rootKind = IF c.mkdirOK THEN "dir" ELSE "absent"]
        [] c.rootKind = "statErr" ->
             [c EXCEPT !.pc = "panic", !.panic = "nil dereference"]
        [] c.rootKind = "file" ->
             [c EXCEPT !.pc = "panic", !.panic = "is not a directory"]
        [] OTHER -> c

\* CacheIdentifiers(idCacheFile): one catalog query, then the snapshot is
\* written; ok tells whether it returned an index
CacheIdentifiers(b) ==
  LET ok == b.catalogOK /\ b.rootKind = "dir"
  IN  [b EXCEPT !.queries = @ + 1,
                !.snapshot = @ \/ ok,
                !.IDCache = IF ok THEN "built" ELSE @,
                !.pc = IF ok THEN @ ELSE "panic",
                !.panic = IF ok THEN @ ELSE "catalog"]

\* LoadIdentifierCache(idCacheFile): the index of the snapshot, no query
LoadIdentifierCache(b) == [b EXCEPT !.IDCache = "loaded"]

\* LoadIndex that builds the index anew whether the snapshot is there or not
LoadIndex_AlwaysBuild(b) ==
  CacheIdentifiers([b EXCEPT !.LineCache = TRUE])

\* InitCache, lines 308-319: the line cache, then the index
LoadIndex(b) ==
  LET c == [b EXCEPT !.LineCache = TRUE]
  IN  IF ~(c.snapshot /\ c.rootKind = "dir")
      THEN CacheIdentifiers(c)
      ELSE LoadIdentifierCache(c)

\* lines 294-320: InitCache
InitCache(b) ==
  LET c == CheckCacheDir(b)
  IN  IF c.pc = "panic" THEN c
      ELSE LET d == LoadIndex(c)
           IN  IF d.pc = "panic" THEN d ELSE [d EXCEPT !.pc = "done"]

\* a caller runs lib.InitCache()
InitCacheCall ==
  /\ boot.pc = "InitCache"
  /\ boot' = InitCache(boot)
  /\ UNCHANGED <<pc, Index, disk, initDisk, yearDirs, idx, year, cacheFiles,
                 ident, progChan, lineChan, sent, progBar, tried, removals,
                 readOnly, last, running, fills, reader>>

\* main.go lines 11-12: the flags are defined, each pointer holds its default
MainFlags ==
  /\ boot.pc = "main"
  /\ boot' = [boot EXCEPT !.isDebug = FALSE, !.repoPath = "", !.pc = "flags"]
  /\ UNCHANGED <<pc, Index, disk, initDisk, yearDirs, idx, year, cacheFiles,
                 ident, progChan, lineChan, sent, progBar, tried, removals,
                 readOnly, last, running, fills, reader>>

\* main.go lines 16-22: flag.Parse, lib.InitCache, web.Serve
MainRun(b) ==
  LET parsed == [b EXCEPT !.repoPath = b.argRepoPath, !.isDebug = b.argDebug]
      c == InitCache(parsed)
  IN  IF c.pc = "panic" THEN c
      ELSE [c EXCEPT !.pc = "serving",
                     !.port = IF c.isDebug THEN DebugPort ELSE ServePort]

\* main.go lines 13-22: the check of *repoPath, then the rest of main
MainBody ==
  /\ boot.pc = "flags"
  /\ boot' = IF boot.repoPath = ""
             THEN [boot EXCEPT !.pc = "panic", !.panic = "repoPath must be set!"]
             ELSE MainRun(boot)
  /\ UNCHANGED <<pc, Index, disk, initDisk, yearDirs, idx, year, cacheFiles,
                 ident, progChan, lineChan, sent, progBar, tried, removals,
                 readOnly, last, running, fills, reader>>

StartNext ==
  \/ InitCacheCall
  \/ MainFlags
  \/ MainBody

StartSpec == StartInit /\ [][StartNext]_vars

\* ------------------------------------------------------------------ claims
\* the index of y has an identifier the classifier accepts and whose fetch
\* delivers a result
HasUsable(y) == \E id \in Index[y] : ClassifiedFraktur(id) /\ ~FetchFails(id)

\* C1: when cacheWatcher has returned without error and no file was removed
\* externally (and no write failed), every year directory holds at least 3
\* .json cache files, whatever it held at the start.
C1_MinStockOnReturn ==
  (pc = "returned" /\ removals = 0 /\ readOnly = {})
    => \A d \in DirNames : Stock(d) >= MinStock

\* C2: from year directories 1850 and 1860 that both start empty, when the
\* watcher has returned (no removal, no failed write) each directory holds at
\* least 3 cache files, whatever the sampling returned.
C2_EmptyYearsFilled ==
  (/\ pc = "returned"
   /\ removals = 0
   /\ readOnly = {}
   /\ \A d \in DirNames : initDisk[d] = InitDir({}, {}))
    => (Stock("1850") >= MinStock /\ Stock("1860") >= MinStock)

\* C5: within one CacheLines call no identifier is handed to FetchLines twice:
\* a step that leaves line 113 does so with an identifier not tried before.
C5_NoRefetch ==
  [][(pc = "fetch" /\ pc' # "fetch") => ident \notin tried]_vars

\* C7: every cache file a fill persists holds a non-empty sequence of lines.
C7_NonEmptyFiles ==
  \A d \in DirNames : \A f \in DOMAIN disk[d].files :
    ~disk[d].files[f].null /\ Len(disk[d].files[f].elems) > 0

\* C8: a fill whose WriteFile fails is a failed fill: its path is not returned
\* and appended to the year's list of cache files.
C8_WriteFailureNotCounted ==
  [][(pc = "select" /\ pc' = "fill" /\ Itoa(year) \in readOnly)
       => cacheFiles' = cacheFiles]_vars

\* C3: after the initial fill, when the external consumer has removed files
\* so that a year's stock is below 3, the stock returns to at least 3.
C3_Replenished ==
  \A d \in DirNames :
    (pc = "returned" /\ last = "removed" /\ Stock(d) < MinStock)
      ~> (Stock(d) >= MinStock)

\* C4: a CacheLines call for a year all of whose fetches fail ends: it goes
\* back to its caller instead of retrying for ever.
C4_BoundedRetry ==
  (InCacheLines /\ \A id \in Index[year] : ClassifiedFraktur(id) => FetchFails(id))
    ~> ~InCacheLines

\* C6: a CacheLines call for a year whose index has an identifier that is
\* accepted by the classifier and whose fetch delivers a result ends, and what
\* it returns (and the watcher appends) is the path <year>/<ident>.json it
\* handed to WriteFile, for an identifier of the year whose fetch delivered;
\* the file is there unless the directory cannot be written.
C6_FillTerminates ==
  (InCacheLines /\ HasUsable(year))
    ~> (/\ pc = "fill"
        /\ last \in {"wrote", "writeErr"}
        /\ cacheFiles[year] # <<>>
        /\ LET filePath == cacheFiles[year][Len(cacheFiles[year])]
           IN  /\ filePath[1] = Itoa(year)
               /\ filePath[2] \in Index[year]
               /\ ClassifiedFraktur(filePath[2])
               /\ ~FetchFails(filePath[2])
               /\ (last = "wrote") = (filePath[1] \notin readOnly)
               /\ last = "wrote" => filePath[2] \in DOMAIN disk[filePath[1]].files)

\* CacheLines has come back from a fetch that delivered, for a year whose
\* index also holds an identifier whose fetch fails
C6_Witness ==
  /\ pc = "fill"
  /\ last = "wrote"
  /\ "pe" \in Index[year]
  /\ cacheFiles[year] # <<>>
  /\ cacheFiles[year][Len(cacheFiles[year])] = <<"1850", "g2">>

C10_FailedFetchResamples ==
  [][(\/ (pc = "fetch" /\ pc' # "fetch" /\ FetchLines(ident) = "err")
      \/ (pc = "select" /\ progChan = "error" /\ progChan' # "error"))
       => (/\ pc' = "sample"
           /\ disk' = disk
           /\ cacheFiles' = cacheFiles)]_vars

\* an error event was received from the progress stream, in a call in which
\* FetchLines had returned an error before, and CacheLines samples again
C10_Witness ==
  /\ pc = "sample"
  /\ last = "progErr"
  /\ ident = "pe"
  /\ "fe" \in tried

\* C11: at every instant at most one CacheLines call is in flight for a year.
C11_OneFillPerYear == \A y \in Years : running[y] <= 1

\* the fill of the second year is in flight after fills of the first year
C11_Witness == running[1860] = 1 /\ fills[1850] > 0 /\ pc = "select"

\* C12: a year directory that is empty when the watcher has listed the cache
\* root gets a fill started, whatever happens to the fill of another year.
C12_IndependentYears ==
  \A d \in DirNames :
    (pc = "range" /\ idx = 1 /\ initDisk[d] = InitDir({}, {}))
      ~> (fills[Atoi(d)] > 0)

\* C13: a fill for the year of directory <y> that comes back has handed
\* <y>/<ident>.json to WriteFile, ident sampled for the year and its fetch
\* delivered, no other file changes, and that path is what it returns; the
\* paths in a year's list all lie in that year's directory, so two years never
\* share one.
C13_PathOfFill ==
  /\ [][(pc = "select" /\ pc' = "fill")
         => LET filePath == cacheFiles'[year][Len(cacheFiles'[year])]
            IN  /\ Len(cacheFiles'[year]) = Len(cacheFiles[year]) + 1
                /\ filePath = <<yearDirs[idx], ident>>
                /\ ident \in Index[year]
                /\ ClassifiedFraktur(ident)
                /\ lineChan \in {"value", "closed"}
                /\ \A d \in DirNames : \A f \in FileNames :
                     <<d, f>> # filePath =>
                       /\ (f \in DOMAIN disk'[d].files) = (f \in DOMAIN disk[d].files)
                       /\ f \in DOMAIN disk[d].files
                            => disk'[d].files[f] = disk[d].files[f]
                /\ filePath[1] \notin readOnly =>
                     /\ ident \in DOMAIN disk'[filePath[1]].files
                     /\ disk'[filePath[1]].files[ident] =
                          Marshal(IF lineChan = "value" THEN LinesOf(ident)
                                  ELSE NilLines)]_vars
  /\ [](\A y \in Years : \A i \in 1..Len(cacheFiles[y]) :
          cacheFiles[y][i] # <<>> => Atoi(cacheFiles[y][i][1]) = y)

\* fills of both years have written files under their own directories
C13_Witness ==
  /\ pc = "fill"
  /\ last = "wrote"
  /\ year = 1860
  /\ fills[1850] > 0
  /\ "g1" \in DOMAIN disk["1850"].files
  /\ "g1" \in DOMAIN disk["1860"].files
  /\ initDisk["1850"] = InitDir({}, {})
  /\ initDisk["1860"] = InitDir({}, {})

\* C18: once the progress stream is closed and the result waits on the line
\* channel, CacheLines receives it, hands it to WriteFile and returns.
C18_ResultReceived ==
  (pc = "select" /\ progChan = "closed" /\ lineChan = "value")
    ~> (pc = "fill" /\ last \in {"wrote", "writeErr"} /\ lineChan = "none")

\* the select has taken the closed progress channel and the result still
\* waits on the line channel
C18_Witness ==
  /\ pc = "select"
  /\ progChan = "closed"
  /\ lineChan = "value"
  /\ last = "progClosed"

C14_FinalCountIsLength ==
  (reader.eof /\ ~reader.zero /\ reader.calls > 0)
    => reader.BytesRead = reader.len

\* C15: BytesRead is the sum of the byte counts n the wrapped reader returned.
C15_CountIsSumOfReads ==
  reader.calls > 0 => reader.BytesRead = reader.sum

\* InitCache has come to its end, by returning or by a panic
InitCacheEnded ==
  /\ boot.pc \in {"done", "panic", "serving"}
  /\ boot.panic # "repoPath must be set!"

\* C16: when InitCache finds a cache root that is not a directory it panics
\* before the line cache or an index is set up and before any catalog query;
\* when it finds none it calls MkdirAll (which creates it unless it fails) and
\* goes on; when it finds a directory it goes on and creates nothing.
C16_CacheRootCheck ==
  InitCacheEnded =>
    /\ boot.root0 = "file" =>
         /\ boot.pc = "panic"
         /\ boot.panic = "is not a directory"
         /\ ~boot.LineCache
         /\ boot.IDCache = "nil"
         /\ boot.queries = 0
         /\ boot.mkdirs = 0
    /\ boot.root0 = "absent" =>
         /\ boot.mkdirs = 1
         /\ boot.mkdirOK => boot.rootKind = "dir"
         /\ boot.LineCache
    /\ boot.root0 = "dir" =>
         /\ boot.mkdirs = 0
         /\ boot.rootKind = "dir"
         /\ boot.LineCache

\* InitCache has panicked on a cache root that is a file
C16_Witness ==
  /\ boot.entry = "InitCache"
  /\ boot.root0 = "file"
  /\ boot.pc = "panic"
  /\ boot.panic = "is not a directory"

C20_RepoPathAccepted ==
  (boot.entry = "main" /\ boot.argRepoPath # "" /\ boot.pc \notin {"main", "flags"})
    => /\ boot.panic # "repoPath must be set!"
       /\ boot.pc = "serving" =>
            /\ boot.port = (IF boot.argDebug THEN DebugPort ELSE ServePort)
            /\ boot.IDCache # "nil"

====
